---- MODULE Spec2Model ----
(***************************************************************************)
(* Model of rustwemoji-parser (src/src/lib.rs): the tokenizer that splits  *)
(* a string into Text / Emoji / CustomEmoji tokens, its optional           *)
(* background-task wrappers (tokio, async-std) and the cfg-gated items     *)
(* that decide which entry points a build defines.                         *)
(*                                                                         *)
(* A Rust String is modelled as its UTF-8 byte sequence; byte offsets are  *)
(* 0-based as in the source, so the byte at offset k is b[k + 1].          *)
(***************************************************************************)
EXTENDS Integers, Sequences, FiniteSets, TLC

(***************************************************************************)
(* Bounds of the model.                                                    *)
(***************************************************************************)
\* An input of the synchronous specification is a concatenation of at most
\* MaxSegs fragments (see Fragments).
MaxSegs == 3
\* Number of parse calls in flight in the asynchronous specification.
NCalls == 2

(***************************************************************************)
(* Options and small helpers.                                              *)
(***************************************************************************)
None == [some |-> FALSE, val |-> <<>>]
Some(v) == [some |-> TRUE, val |-> v]

SetMax(S) == CHOOSE x \in S : \A y \in S : y <= x
SetMin(S) == CHOOSE x \in S : \A y \in S : x <= y

RECURSIVE Concat(_)
Concat(ss) == IF ss = <<>> THEN <<>> ELSE Head(ss) \o Concat(Tail(ss))

(***************************************************************************)
(* Strings: UTF-8 encoding and decoding.                                   *)
(***************************************************************************)
\* char::to_string: the UTF-8 encoding of one Unicode scalar value.
Utf8(c) ==
    IF c < 128 THEN <<c>>
    ELSE IF c < 2048 THEN <<192 + (c \div 64), 128 + (c % 64)>>
    ELSE IF c < 65536 THEN
        <<224 + (c \div 4096), 128 + ((c \div 64) % 64), 128 + (c % 64)>>
    ELSE <<240 + (c \div 262144), 128 + ((c \div 4096) % 64),
           128 + ((c \div 64) % 64), 128 + (c % 64)>>

\* Width in bytes of the scalar whose encoding starts with byte x.
Utf8Width(x) == IF x < 128 THEN 1 ELSE IF x < 224 THEN 2 ELSE IF x < 240 THEN 3 ELSE 4

\* The scalar value encoded by the byte sequence e (one scalar).
Utf8Decode(e) ==
    IF Len(e) = 1 THEN e[1]
    ELSE IF Len(e) = 2 THEN (e[1] - 192) * 64 + (e[2] - 128)
    ELSE IF Len(e) = 3 THEN (e[1] - 224) * 4096 + (e[2] - 128) * 64 + (e[3] - 128)
    ELSE (e[1] - 240) * 262144 + (e[2] - 128) * 4096 + (e[3] - 128) * 64 + (e[4] - 128)

\* str::chars: the Unicode scalar values of a well-formed UTF-8 string.
RECURSIVE Chars(_)
Chars(b) ==
    IF b = <<>> THEN <<>>
    ELSE LET w == Utf8Width(b[1])
         IN <<Utf8Decode(SubSeq(b, 1, w))>> \o Chars(SubSeq(b, w + 1, Len(b)))

\* str::is_char_boundary(i): offset 0, the end, or a byte that is not a
\* continuation byte (0x80..0xBF).
IsCharBoundary(b, i) ==
    \/ i = 0
    \/ i = Len(b)
    \/ /\ 0 < i
       /\ i < Len(b)
       /\ ~(b[i + 1] >= 128 /\ b[i + 1] < 192)

\* s[i..j]: None stands for the panic of an out-of-range or off-boundary slice.
Slice(b, i, j) ==
    IF i <= j /\ j <= Len(b) /\ IsCharBoundary(b, i) /\ IsCharBoundary(b, j)
    THEN Some(SubSeq(b, i + 1, j))
    ELSE None

(***************************************************************************)
(* The custom-emoji pattern and the regex engine's search.                 *)
(***************************************************************************)
MinIdDigits == 17
MaxIdDigits == 19

Digit == 48..57
NameByte == (97..122) \cup (65..90) \cup Digit \cup {95}

\* A variant of the pattern whose id may be one digit longer: {17,20}.
RE_LONGER_ID ==
    << [cls |-> {60},     min |-> 1, bounded |-> TRUE,  max |-> 1, group |-> 0],
       [cls |-> {97},     min |-> 0, bounded |-> TRUE,  max |-> 1, group |-> 0],
       [cls |-> {58},     min |-> 1, bounded |-> TRUE,  max |-> 1, group |-> 0],
       [cls |-> NameByte, min |-> 1, bounded |-> FALSE, max |-> 0, group |-> 0],
       [cls |-> {58},     min |-> 1, bounded |-> TRUE,  max |-> 1, group |-> 0],
       [cls |-> Digit,    min |-> MinIdDigits, bounded |-> TRUE,
                          max |-> MaxIdDigits + 1, group |-> 1],
       [cls |-> {62},     min |-> 1, bounded |-> TRUE,  max |-> 1, group |-> 0] >>

\* r"<a?:[a-zA-Z0-9_]+:([0-9]{17,19})>" as a sequence of greedy repetitions
\* of byte classes; group is the capture group an element is wrapped in.
RE_DISCORD_EMOJI ==
    << [cls |-> {60},     min |-> 1, bounded |-> TRUE,  max |-> 1, group |-> 0],
       [cls |-> {97},     min |-> 0, bounded |-> TRUE,  max |-> 1, group |-> 0],
       [cls |-> {58},     min |-> 1, bounded |-> TRUE,  max |-> 1, group |-> 0],
       [cls |-> NameByte, min |-> 1, bounded |-> FALSE, max |-> 0, group |-> 0],
       [cls |-> {58},     min |-> 1, bounded |-> TRUE,  max |-> 1, group |-> 0],
       [cls |-> Digit,    min |-> MinIdDigits, bounded |-> TRUE,
                          max |-> MaxIdDigits, group |-> 1],
       [cls |-> {62},     min |-> 1, bounded |-> TRUE,  max |-> 1, group |-> 0] >>

\* Number of consecutive bytes of class cls at offset pos, at most cap.
RECURSIVE RunLen(_, _, _, _)
RunLen(b, pos, cls, cap) ==
    IF cap = 0 \/ pos >= Len(b) \/ b[pos + 1] \notin cls THEN 0
    ELSE 1 + RunLen(b, pos + 1, cls, cap - 1)

\* Backtracking match of elements k.. of the pattern at offset pos:
\* Some(end offsets of the elements k..) or None.  MatchCount tries element k
\* with n repetitions, then with fewer (greedy first) down to its minimum.
RECURSIVE MatchFrom(_, _, _, _), MatchCount(_, _, _, _, _)
MatchFrom(re, b, pos, k) ==
    IF k > Len(re) THEN Some(<<>>)
    ELSE MatchCount(re, b, pos, k,
                    RunLen(b, pos, re[k].cls, IF re[k].bounded THEN re[k].max ELSE Len(b)))

MatchCount(re, b, pos, k, n) ==
    IF n < re[k].min THEN None
    ELSE LET rest == MatchFrom(re, b, pos + n, k + 1)
         IN IF rest.some THEN Some(<<pos + n>> \o rest.val)
            ELSE MatchCount(re, b, pos, k, n - 1)

\* Regex::find_at: the leftmost match starting at or after offset from.
RECURSIVE FindAt(_, _, _)
FindAt(re, b, from) ==
    IF from > Len(b) THEN None
    ELSE LET ends == MatchFrom(re, b, from, 1)
         IN IF ends.some
            THEN Some([start |-> from, end |-> ends.val[Len(ends.val)], ends |-> ends.val])
            ELSE FindAt(re, b, from + 1)

\* Captures::get(g) of the leftmost match in t: the byte range of group g.
CapturesGet(re, t, g) ==
    LET m == FindAt(re, t, 0)
    IN IF ~m.some THEN None
       ELSE LET ks == {k \in 1..Len(re) : re[k].group = g}
            IN IF ks = {} THEN None
               ELSE LET k == SetMin(ks)
                        from == IF k = 1 THEN m.val.start ELSE m.val.ends[k - 1]
                    IN Some(SubSeq(t, from + 1, m.val.ends[SetMax(ks)]))

(***************************************************************************)
(* Tokens and the emoji resolver.                                          *)
(***************************************************************************)
\* Token::new_text, Token::new_emoji
new_text(str) == [type |-> "Text", value |-> str]
new_emoji(bytes) == [type |-> "Emoji", value |-> bytes]

\* "https://cdn.discordapp.com/emojis/" and ".png?size=96"
UrlPrefix ==
    <<104, 116, 116, 112, 115, 58, 47, 47, 99, 100, 110, 46, 100, 105, 115, 99,
      111, 114, 100, 97, 112, 112, 46, 99, 111, 109, 47, 101, 109, 111, 106,
      105, 115, 47>>
UrlSuffix == <<46, 112, 110, 103, 63, 115, 105, 122, 101, 61, 57, 54>>

\* Token::new_custom_emoji: format!("https://cdn.discordapp.com/emojis/{}.png?size=96", s)
new_custom_emoji(id) == [type |-> "CustomEmoji", value |-> UrlPrefix \o id \o UrlSuffix]

\* The image bytes the resolver holds for its k-th emoji (a PNG signature
\* followed by a distinguishing byte).
Png(k) == <<137, 80, 78, 71, k>>

\* Scalars used by the inputs: U+1F600 (four bytes), U+00E9 (two bytes) and
\* the ASCII digit 7.
Grinning == Utf8(128512)
EAcute == Utf8(233)
Seven == <<55>>

\* The resolver's table is data of the external crate rustwemoji.  In the
\* model it knows U+1F600 and, so that a character of a markup can also be an
\* emoji, the digit 7; it knows no other character of the inputs.
EmojiTable == (Grinning :> Png(1)) @@ (Seven :> Png(2))

VARIABLES
    s,          \* s[c]: the String passed to call c
    caller,     \* caller[c]: "idle", "incall", "returned", "unwound"
    exec,       \* exec[c]: where the body of raw_parse runs and how far it is
    frame,      \* frame[c]: the locals of raw_parse in call c
    result,     \* result[c]: what parse handed back to the caller of call c
    spawns,     \* spawns[c]: tasks spawned on behalf of call c
    features,   \* the build's enabled cargo features
    item,       \* the next cfg-gated item of lib.rs the compiler looks at
    defs,       \* the items compiled in so far, by name
    diags       \* the diagnostics emitted so far

runVars == <<s, caller, exec, frame, result, spawns>>
buildVars == <<features, item, defs, diags>>
vars == <<runVars, buildVars>>

(***************************************************************************)
(* The build: the cfg-gated items of lib.rs, in source order.              *)
(***************************************************************************)
FeatureSets == [discord : BOOLEAN, async : BOOLEAN, tokio : BOOLEAN, asyncstd : BOOLEAN]

CompileErrorMsg == "You can only enable one of the async features"

\* The top-level items of lib.rs; variant tells the definitions of one name apart.
Items ==
    << [name |-> "Regex",            kind |-> "use",   variant |-> "",          line |-> 2],
       [name |-> "get",              kind |-> "use",   variant |-> "",          line |-> 3],
       [name |-> "RE_DISCORD_EMOJI", kind |-> "const", variant |-> "",          line |-> 6],
       [name |-> "Token",            kind |-> "enum",  variant |-> "",          line |-> 10],
       [name |-> "raw_parse",        kind |-> "fn",    variant |-> "plain",     line |-> 35],
       [name |-> "parse",            kind |-> "fn",    variant |-> "none",      line |-> 40],
       [name |-> "parse",            kind |-> "fn",    variant |-> "tokio",     line |-> 46],
       [name |-> "parse",            kind |-> "fn",    variant |-> "async-std", line |-> 52],
       [name |-> "raw_parse_emoji",  kind |-> "fn",    variant |-> "",          line |-> 56],
       [name |-> "raw_parse",        kind |-> "fn",    variant |-> "discord",   line |-> 70],
       [name |-> CompileErrorMsg,    kind |-> "compile_error", variant |-> "",  line |-> 150] >>

\* A variant of the attributes in which the compile_error! item is gated on
\* the feature "async" being off as well.
CfgHoldsNoAsync(ln, f) ==
    CASE ln = 2 -> f.discord
      [] ln = 6 -> f.discord
      [] ln = 35 -> ~f.discord
      [] ln = 40 -> ~f.async
      [] ln = 46 -> f.tokio
      [] ln = 52 -> f.asyncstd
      [] ln = 70 -> f.discord
      [] ln = 150 -> f.asyncstd /\ f.tokio /\ ~f.async
      [] OTHER -> TRUE

\* The #[cfg(...)] attribute of the item at line ln, evaluated under f.
CfgHolds(ln, f) ==
    CASE ln = 2 -> f.discord
      [] ln = 6 -> f.discord
      [] ln = 35 -> ~f.discord
      [] ln = 40 -> ~f.async
      [] ln = 46 -> f.tokio
      [] ln = 52 -> f.asyncstd
      [] ln = 70 -> f.discord
      [] ln = 150 -> f.asyncstd /\ f.tokio
      [] OTHER -> TRUE

\* The items compiled in under f.
Compiled(f) == {k \in 1..Len(Items) : CfgHolds(Items[k].line, f)}

\* The variants of the function fname a build with features f defines.
Variants(fname, f) ==
    {Items[k].variant : k \in {j \in Compiled(f) : Items[j].name = fname /\ Items[j].kind = "fn"}}

\* Number of definitions of name compiled in under f.
DefCount(name, f) ==
    Cardinality({k \in Compiled(f) : Items[k].name = name /\ Items[k].kind # "compile_error"})

Names == {Items[k].name : k \in {j \in 1..Len(Items) : Items[j].kind # "compile_error"}}

\* error[E0428]: the name is defined multiple times
Duplicate(name) == <<"E0428", name>>

\* error: the message of a compile_error! item that is compiled in
compile_error(msg) == <<"error", msg>>

\* A build that compiles (no compile_error!, no name defined twice) and has
\* a parse to call.
Runnable(f) ==
    /\ \A k \in Compiled(f) : Items[k].kind # "compile_error"
    /\ \A n \in Names : DefCount(n, f) <= 1
    /\ DefCount("parse", f) = 1

\* The raw_parse and the parse the running build was compiled with.
RawParseVariant == CHOOSE v \in Variants("raw_parse", features) : TRUE
Wrapper == CHOOSE v \in Variants("parse", features) : TRUE

\* rustwemoji::get(&f)
get(f) == IF f \in DOMAIN EmojiTable THEN Some(EmojiTable[f]) ELSE None

\* s.chars().map(|f| f.to_string()): the one-scalar strings of s, in order.
CharStrings(str) == LET cs == Chars(str) IN [i \in 1..Len(cs) |-> Utf8(cs[i])]

\* The closure of raw_parse_emoji: Emoji when the resolver knows f, else Text.
TokenOf(f) == IF get(f).some THEN new_emoji(get(f).val) ELSE new_text(f)

\* A variant of raw_parse_emoji that walks the bytes of s, not its chars.
raw_parse_emoji_bytes(str) == [i \in 1..Len(str) |-> TokenOf(<<str[i]>>)]

\* A variant of raw_parse_emoji that turns an empty span into an empty Text.
raw_parse_emoji_empty(str) ==
    IF str = <<>> THEN <<new_text(<<>>)>>
    ELSE LET fs == CharStrings(str) IN [i \in 1..Len(fs) |-> TokenOf(fs[i])]

\* raw_parse_emoji
raw_parse_emoji(str) ==
    LET fs == CharStrings(str) IN [i \in 1..Len(fs) |-> TokenOf(fs[i])]

(***************************************************************************)
(* raw_parse, one step at a time.  A frame holds the locals of one call:   *)
(* pc, tokens, last, the iterator's search position it, the match m of the *)
(* current iteration, and lits, which records for every token pushed the   *)
(* piece of the input it was made from.                                    *)
(***************************************************************************)
NoMatch == [start |-> 0, end |-> 0]

IdleFrame ==
    [pc |-> "idle", tokens |-> <<>>, lits |-> <<>>, last |-> 0, it |-> 0, m |-> NoMatch]

\* Entry of raw_parse: with "discord" lines 71-73 (tokens, re, last), without
\* it the body is the single call of line 36.
EntryFrame ==
    [IdleFrame EXCEPT !.pc = IF RawParseVariant = "discord" THEN "iter" ELSE "plain"]

\* not(feature "discord"): raw_parse(s) = raw_parse_emoji(s)
PlainStep(str, fr) ==
    [fr EXCEPT !.pc = "done",
               !.tokens = raw_parse_emoji(str),
               !.lits = CharStrings(str)]

\* A variant of the iterator that resumes its search at the start of the
\* match it has just returned.
IterStepFromStart(str, fr) ==
    LET f == FindAt(RE_DISCORD_EMOJI, str, fr.it)
    IN IF f.some
       THEN [fr EXCEPT !.pc = "body",
                       !.m = [start |-> f.val.start, end |-> f.val.end],
                       !.it = f.val.start]
       ELSE [fr EXCEPT !.pc = "tail"]

\* for m in re.find_iter(&s): the iterator's next(), searching from the end of
\* the previous match; (start, end) = (m.range().start, m.range().end).
IterStep(str, fr) ==
    LET f == FindAt(RE_DISCORD_EMOJI, str, fr.it)
    IN IF f.some
       THEN [fr EXCEPT !.pc = "body",
                       !.m = [start |-> f.val.start, end |-> f.val.end],
                       !.it = f.val.end]
       ELSE [fr EXCEPT !.pc = "tail"]

\* A variant of the loop body that pushes the custom emoji before the text
\* that precedes it.
BodyStepEmojiFirst(str, fr) ==
    LET text == Slice(str, fr.last, fr.m.start)
        emoji == Slice(str, fr.m.start, fr.m.end)
        id == IF emoji.some THEN CapturesGet(RE_DISCORD_EMOJI, emoji.val, 1) ELSE None
    IN IF text.some /\ emoji.some /\ id.some
       THEN [fr EXCEPT !.pc = "iter",
                       !.tokens = (@ \o <<new_custom_emoji(id.val)>>)
                                      \o raw_parse_emoji(text.val),
                       !.lits = (@ \o <<emoji.val>>) \o CharStrings(text.val),
                       !.last = fr.m.end]
       ELSE [fr EXCEPT !.pc = "panic"]

\* A variant of the loop body that does not move last to the end of the match.
BodyStepNoAdvance(str, fr) ==
    LET text == Slice(str, fr.last, fr.m.start)
        emoji == Slice(str, fr.m.start, fr.m.end)
        id == IF emoji.some THEN CapturesGet(RE_DISCORD_EMOJI, emoji.val, 1) ELSE None
    IN IF text.some /\ emoji.some /\ id.some
       THEN [fr EXCEPT !.pc = "iter",
                       !.tokens = (@ \o raw_parse_emoji(text.val))
                                      \o <<new_custom_emoji(id.val)>>,
                       !.lits = (@ \o CharStrings(text.val)) \o <<emoji.val>>]
       ELSE [fr EXCEPT !.pc = "panic"]

\* The loop body, lines 76-87.
BodyStep(str, fr) ==
    LET text == Slice(str, fr.last, fr.m.start)
        emoji == Slice(str, fr.m.start, fr.m.end)
        id == IF emoji.some THEN CapturesGet(RE_DISCORD_EMOJI, emoji.val, 1) ELSE None
    IN IF text.some /\ emoji.some /\ id.some
       THEN [fr EXCEPT !.pc = "iter",
                       !.tokens = (@ \o raw_parse_emoji(text.val))
                                      \o <<new_custom_emoji(id.val)>>,
                       !.lits = (@ \o CharStrings(text.val)) \o <<emoji.val>>,
                       !.last = fr.m.end]
       ELSE [fr EXCEPT !.pc = "panic"]

\* After the loop, lines 89-91.
TailStep(str, fr) ==
    LET text == Slice(str, fr.last, Len(str))
    IN IF text.some
       THEN [fr EXCEPT !.pc = "done",
                       !.tokens = @ \o raw_parse_emoji(text.val),
                       !.lits = @ \o CharStrings(text.val)]
       ELSE [fr EXCEPT !.pc = "panic"]

StepFrame(str, fr) ==
    CASE fr.pc = "plain" -> PlainStep(str, fr)
      [] fr.pc = "iter" -> IterStep(str, fr)
      [] fr.pc = "body" -> BodyStep(str, fr)
      [] fr.pc = "tail" -> TailStep(str, fr)
      [] OTHER -> fr

\* raw_parse as a function of its argument: the frame run to its end.
RECURSIVE RunFrame(_, _)
RunFrame(str, fr) ==
    IF fr.pc \in {"done", "panic", "idle"} THEN fr ELSE RunFrame(str, StepFrame(str, fr))

raw_parse(str) == RunFrame(str, EntryFrame)

(***************************************************************************)
(* Inputs.                                                                 *)
(***************************************************************************)
\* n ASCII digits "1234567890123..."
Digits(n) == [i \in 1..n |-> 48 + (i % 10)]

\* '<' anim ':' name ':' n digits, then close
Markup(anim, name, n, close) ==
    ((((<<60>> \o anim) \o <<58>>) \o name) \o <<58>>) \o Digits(n) \o close

\* Single characters that can extend or break a markup, multi-byte scalars,
\* and bracketed candidates around the limits of the pattern.
Fragments ==
    { <<62>>, Seven, EAcute, Grinning,
      Markup(<<>>, <<110, 95>>, MinIdDigits - 1, <<>>),
      Markup(<<>>, <<110>>, MinIdDigits, <<62>>),
      Markup(<<97>>, <<90, 57>>, MaxIdDigits, <<62>>),
      Markup(<<>>, <<110>>, MaxIdDigits + 1, <<62>>),
      Markup(<<>>, <<>>, MinIdDigits, <<62>>),
      Markup(<<97>>, <<110, 45, 110>>, MinIdDigits + 1, <<62>>) }

\* "Hello <a:pepega:123456789012345678> World", the input of test_parse
Hello == <<72, 101, 108, 108, 111, 32>>
World == <<32, 87, 111, 114, 108, 100>>
Pepega == <<112, 101, 112, 101, 103, 97>>
TestInput == (Hello \o Markup(<<97>>, Pepega, MinIdDigits + 1, <<62>>)) \o World

Inputs ==
    {Concat(q) : q \in UNION {[1..k -> Fragments] : k \in 0..MaxSegs}} \cup {TestInput}

\* The inputs of concurrent calls.
AsyncInputs ==
    { TestInput,
      ((Grinning \o Markup(<<>>, <<110>>, MinIdDigits, <<62>>))
          \o Markup(<<97>>, <<90, 57>>, MaxIdDigits, <<62>>)) \o EAcute }

Calls == 1..NCalls

\* The call of the synchronous specification, whose caller is one thread.
TheCall == CHOOSE c \in Calls : \A d \in Calls : c <= d

(***************************************************************************)
(* Results handed to the caller.                                           *)
(***************************************************************************)
Pending == [kind |-> "Pending", tokens |-> <<>>, error |-> ""]
\* Vec<Token> (no wrapper, async-std)
Value(toks) == [kind |-> "Vec", tokens |-> toks, error |-> ""]
\* Result<Vec<Token>, JoinError> (tokio)
Ok(toks) == [kind |-> "Ok", tokens |-> toks, error |-> ""]
Err(e) == [kind |-> "Err", tokens |-> <<>>, error |-> e]

(***************************************************************************)
(* The build as a state machine.                                           *)
(***************************************************************************)
Finished == Len(Items) + 2

InitRun ==
    /\ s = [c \in Calls |-> <<>>]
    /\ caller = [c \in Calls |-> "idle"]
    /\ exec = [c \in Calls |-> "none"]
    /\ frame = [c \in Calls |-> IdleFrame]
    /\ result = [c \in Calls |-> Pending]
    /\ spawns = [c \in Calls |-> 0]

InitBuild ==
    /\ features \in FeatureSets
    /\ item = 1
    /\ defs = [n \in Names |-> 0]
    /\ diags = {}
    /\ InitRun

\* The compiler reaches the next item: it is compiled in when its cfg holds.
CompileItem ==
    /\ item <= Len(Items)
    /\ LET it == Items[item]
       IN IF ~CfgHolds(it.line, features)
          THEN UNCHANGED <<defs, diags>>
          ELSE IF it.kind = "compile_error"
          THEN /\ diags' = diags \cup {compile_error(it.name)}
               /\ UNCHANGED defs
          ELSE /\ defs' = [defs EXCEPT ![it.name] = @ + 1]
               /\ UNCHANGED diags
    /\ item' = item + 1
    /\ UNCHANGED <<features, runVars>>

\* Name resolution over the items compiled in.
Resolve ==
    /\ item = Len(Items) + 1
    /\ diags' = diags \cup {Duplicate(n) : n \in {x \in Names : defs[x] > 1}}
    /\ item' = Finished
    /\ UNCHANGED <<features, defs, runVars>>

NextBuild == CompileItem \/ Resolve

SpecBuild == InitBuild /\ [][NextBuild]_vars

(***************************************************************************)
(* Running a build: the synchronous parse.                                 *)
(***************************************************************************)
\* The state a finished, accepted build of f leaves.
BuiltWith(f) ==
    /\ features = f
    /\ item = Finished
    /\ defs = [n \in Names |-> DefCount(n, f)]
    /\ diags = {}

Init ==
    /\ \E f \in {g \in FeatureSets : Runnable(g) /\ Variants("parse", g) = {"none"}} :
           BuiltWith(f)
    /\ InitRun

\* parse(s) without a wrapper: raw_parse(s) runs on the caller's thread.
Call(c) ==
    /\ caller[c] = "idle"
    /\ Wrapper = "none"
    /\ \E in \in Inputs : s' = [s EXCEPT ![c] = in]
    /\ caller' = [caller EXCEPT ![c] = "incall"]
    /\ exec' = [exec EXCEPT ![c] = "running"]
    /\ frame' = [frame EXCEPT ![c] = EntryFrame]
    /\ UNCHANGED <<result, spawns, buildVars>>

\* The steps of the body of raw_parse in call c, on whichever thread runs it.
Plain(c) ==
    /\ exec[c] = "running"
    /\ frame[c].pc = "plain"
    /\ frame' = [frame EXCEPT ![c] = PlainStep(s[c], @)]
    /\ UNCHANGED <<s, caller, exec, result, spawns, buildVars>>

IterNext(c) ==
    /\ exec[c] = "running"
    /\ frame[c].pc = "iter"
    /\ frame' = [frame EXCEPT ![c] = IterStep(s[c], @)]
    /\ UNCHANGED <<s, caller, exec, result, spawns, buildVars>>

Body(c) ==
    /\ exec[c] = "running"
    /\ frame[c].pc = "body"
    /\ frame' = [frame EXCEPT ![c] = BodyStep(s[c], @)]
    /\ UNCHANGED <<s, caller, exec, result, spawns, buildVars>>

Finish(c) ==
    /\ exec[c] = "running"
    /\ frame[c].pc = "tail"
    /\ frame' = [frame EXCEPT ![c] = TailStep(s[c], @)]
    /\ UNCHANGED <<s, caller, exec, result, spawns, buildVars>>

\* raw_parse returns tokens and parse returns them to its caller.
Return(c) ==
    /\ exec[c] = "running"
    /\ frame[c].pc = "done"
    /\ Wrapper = "none"
    /\ exec' = [exec EXCEPT ![c] = "complete"]
    /\ result' = [result EXCEPT ![c] = Value(frame[c].tokens)]
    /\ caller' = [caller EXCEPT ![c] = "returned"]
    /\ UNCHANGED <<s, frame, spawns, buildVars>>

Next ==
    \/ Call(TheCall)
    \/ Plain(TheCall)
    \/ IterNext(TheCall)
    \/ Body(TheCall)
    \/ Finish(TheCall)
    \/ Return(TheCall)

Spec == Init /\ [][Next]_vars

(***************************************************************************)
(* Running a build: parse behind a background-task wrapper.                *)
(***************************************************************************)
InitAsync ==
    /\ \E f \in {g \in FeatureSets : Runnable(g) /\ Variants("parse", g) # {"none"}} :
           BuiltWith(f)
    /\ InitRun

\* parse(s): spawn(async { raw_parse(s) }) moves s into a new task, and the
\* caller awaits the task's handle.
Spawn(c) ==
    /\ caller[c] = "idle"
    /\ Wrapper \in {"tokio", "async-std"}
    /\ \E in \in AsyncInputs : s' = [s EXCEPT ![c] = in]
    /\ caller' = [caller EXCEPT ![c] = "incall"]
    /\ exec' = [exec EXCEPT ![c] = "scheduled"]
    /\ spawns' = [spawns EXCEPT ![c] = @ + 1]
    /\ UNCHANGED <<frame, result, buildVars>>

\* A variant of the task whose body is raw_parse_emoji(s): the markup scan
\* is left out behind the wrapper.
PollCharacterScanOnly(c) ==
    /\ exec[c] = "scheduled"
    /\ exec' = [exec EXCEPT ![c] = "running"]
    /\ frame' = [frame EXCEPT ![c] = [IdleFrame EXCEPT !.pc = "plain"]]
    /\ UNCHANGED <<s, caller, result, spawns, buildVars>>

\* A worker polls the task for the first time: raw_parse(s) is entered.
Poll(c) ==
    /\ exec[c] = "scheduled"
    /\ exec' = [exec EXCEPT ![c] = "running"]
    /\ frame' = [frame EXCEPT ![c] = EntryFrame]
    /\ UNCHANGED <<s, caller, result, spawns, buildVars>>

\* raw_parse returns: the task's output is stored for its handle.
Complete(c) ==
    /\ exec[c] = "running"
    /\ frame[c].pc = "done"
    /\ Wrapper \in {"tokio", "async-std"}
    /\ exec' = [exec EXCEPT ![c] = "complete"]
    /\ UNCHANGED <<s, caller, frame, result, spawns, buildVars>>

\* The runtime is shut down before the task was polled: tokio drops the task.
Cancel(c) ==
    /\ exec[c] = "scheduled"
    /\ Wrapper = "tokio"
    /\ exec' = [exec EXCEPT ![c] = "cancelled"]
    /\ UNCHANGED <<s, caller, frame, result, spawns, buildVars>>

\* A panic inside the task body (a failed slice or unwrap of raw_parse, the
\* resolver, a capacity overflow): unwinding drops the locals of the body.
TaskPanic(c) ==
    /\ exec[c] = "running"
    /\ frame[c].pc # "done"
    /\ exec' = [exec EXCEPT ![c] = "panicked"]
    /\ frame' = [frame EXCEPT ![c] = [IdleFrame EXCEPT !.pc = "panic"]]
    /\ UNCHANGED <<s, caller, result, spawns, buildVars>>

\* What the awaited handle yields for a task that ran to completion:
\* Ok(output) under tokio, the output itself under async-std.
Deliver(c) ==
    IF Wrapper = "tokio" THEN Ok(frame[c].tokens) ELSE Value(frame[c].tokens)

\* .await on the handle of a completed task.
Join(c) ==
    /\ caller[c] = "incall"
    /\ exec[c] = "complete"
    /\ result' = [result EXCEPT ![c] = Deliver(c)]
    /\ caller' = [caller EXCEPT ![c] = "returned"]
    /\ UNCHANGED <<s, exec, frame, spawns, buildVars>>

\* A variant of the failed await that hands back an empty vector in place of
\* the error (unwrap_or_default).
JoinFailDefault(c) ==
    /\ caller[c] = "incall"
    /\ exec[c] \in {"cancelled", "panicked"}
    /\ result' = [result EXCEPT ![c] = IF Wrapper = "tokio" THEN Ok(<<>>) ELSE Value(<<>>)]
    /\ caller' = [caller EXCEPT ![c] = "returned"]
    /\ UNCHANGED <<s, exec, frame, spawns, buildVars>>

\* .await on the handle of a task that did not complete: tokio yields
\* Err(JoinError); under async-std the caller gets no value at all.
JoinFail(c) ==
    /\ caller[c] = "incall"
    /\ exec[c] \in {"cancelled", "panicked"}
    /\ IF Wrapper = "tokio"
       THEN /\ result' = [result EXCEPT ![c] = Err(exec[c])]
            /\ caller' = [caller EXCEPT ![c] = "returned"]
       ELSE /\ caller' = [caller EXCEPT ![c] = "unwound"]
            /\ UNCHANGED result
    /\ UNCHANGED <<s, exec, frame, spawns, buildVars>>

NextAsync ==
    \E c \in Calls :
        \/ Spawn(c)
        \/ Poll(c)
        \/ Plain(c)
        \/ IterNext(c)
        \/ Body(c)
        \/ Finish(c)
        \/ Complete(c)
        \/ Cancel(c)
        \/ TaskPanic(c)
        \/ Join(c)
        \/ JoinFail(c)

SpecAsync == InitAsync /\ [][NextAsync]_vars

(***************************************************************************)
(* Vocabulary of the properties, stated on the bytes of the input without  *)
(* the operators of the model.                                             *)
(***************************************************************************)
IsContinuation(x) == x >= 128 /\ x <= 191

\* Offsets at which a Unicode scalar value of b starts.
ScalarStarts(b) == {i \in 0..(Len(b) - 1) : ~IsContinuation(b[i + 1])}

\* v holds exactly one Unicode scalar value.
OneScalar(v) == Len(v) >= 1 /\ ScalarStarts(v) = {0}

\* w is '<', an optional 'a', ':', a name of one or more [A-Za-z0-9_], ':',
\* 17 to 19 ASCII digits, '>'.
IsMarkup(w) ==
    \E a \in {0, 1} : \E d \in 17..19 :
        LET n == Len(w) - (a + d + 4)
        IN /\ n >= 1
           /\ w[1] = 60
           /\ a = 1 => w[2] = 97
           /\ w[2 + a] = 58
           /\ \A j \in 1..n : w[2 + a + j] \in (48..57) \cup (65..90) \cup (97..122) \cup {95}
           /\ w[3 + a + n] = 58
           /\ \A j \in 1..d : w[3 + a + n + j] \in 48..57
           /\ w[Len(w)] = 62

\* The occurrences of the markup in b, as byte ranges <<start, end>>.
Occurrences(b) ==
    {o \in {i \in 0..(Len(b) - 1) : b[i + 1] = 60} \X {j \in 1..Len(b) : b[j] = 62} :
        o[1] < o[2] /\ IsMarkup(SubSeq(b, o[1] + 1, o[2]))}

\* The leftmost-first, non-overlapping occurrences at or after offset from.
RECURSIVE LeftmostFirst(_, _)
LeftmostFirst(occ, from) ==
    LET cands == {o \in occ : o[1] >= from}
    IN IF cands = {} THEN <<>>
       ELSE LET o == CHOOSE x \in cands : \A y \in cands : x[1] <= y[1]
            IN <<o>> \o LeftmostFirst(occ, o[2])

\* The matches a scan of b is to report: none when scanning is disabled.
Matches(b) ==
    IF features.discord THEN LeftmostFirst(Occurrences(b), 0) ELSE <<>>

\* The digit run of a markup w: the digits between its last ':' and '>'.
DigitRun(w) ==
    LET colons == {j \in 1..Len(w) : w[j] = 58}
    IN SubSeq(w, SetMax(colons) + 1, Len(w) - 1)

\* Indices of the tokens of the given types, in order.
RECURSIVE IndicesOf(_, _, _)
IndicesOf(toks, types, k) ==
    IF k > Len(toks) THEN <<>>
    ELSE (IF toks[k].type \in types THEN <<k>> ELSE <<>>) \o IndicesOf(toks, types, k + 1)

\* The offsets at which the pieces start when laid end to end from offset from.
RECURSIVE Offsets(_, _)
Offsets(pieces, from) ==
    IF pieces = <<>> THEN <<>>
    ELSE <<from>> \o Offsets(Tail(pieces), from + Len(Head(pieces)))

\* The call has run raw_parse to its end.
Done(c) == frame[c].pc = "done"

\* Token tk is what the piece lit of the input is to become.
StandsFor(tk, lit) ==
    CASE tk.type = "Text" -> tk.value = lit /\ lit \notin DOMAIN EmojiTable
      [] tk.type = "Emoji" -> lit \in DOMAIN EmojiTable /\ tk.value = EmojiTable[lit]
      [] tk.type = "CustomEmoji" ->
            /\ IsMarkup(lit)
            /\ tk.value = (UrlPrefix \o DigitRun(lit)) \o UrlSuffix
      [] OTHER -> FALSE

(***************************************************************************)
(* C1  Order preservation.  Replacing every token of parse(s) by the piece *)
(* of s it stands for (a Text token by its character, an Emoji token by    *)
(* the character looked up, a CustomEmoji token by the markup matched) and *)
(* concatenating the pieces in output order gives back s exactly; while    *)
(* the scan is under way the pieces so far are the input up to the cursor. *)
(***************************************************************************)
C1_OrderPreservation ==
    LET fr == frame[TheCall]
    IN fr.pc \in {"iter", "body", "tail", "done"} =>
        /\ Len(fr.lits) = Len(fr.tokens)
        /\ \A k \in 1..Len(fr.tokens) : StandsFor(fr.tokens[k], fr.lits[k])
        /\ Concat(fr.lits) = SubSeq(s[TheCall], 1, IF Done(TheCall) THEN Len(s[TheCall]) ELSE fr.last)

\* A finished scan with two custom emoji, a standard emoji and plain text.
C1_Witness ==
    LET fr == frame[TheCall]
    IN /\ Done(TheCall)
       /\ Len(IndicesOf(fr.tokens, {"CustomEmoji"}, 1)) = 2
       /\ \E k \in 1..Len(fr.tokens) : fr.tokens[k].type = "Emoji"
       /\ \E k \in 1..Len(fr.tokens) : fr.tokens[k].type = "Text"

(***************************************************************************)
(* C4  The character-level scanner.  With custom-emoji scanning disabled   *)
(* parse(s) is one token per Unicode scalar value of s, in order: Emoji    *)
(* with the resolver's bytes when the resolver knows the scalar, otherwise *)
(* Text holding that one scalar; never a CustomEmoji token, and nothing    *)
(* for the empty string.  In every mode a Text token holds exactly one     *)
(* scalar and every token outside the matches comes from one scalar.       *)
(***************************************************************************)
C4_CharacterScanner ==
    LET fr == frame[TheCall]
        b == s[TheCall]
        starts == ScalarStarts(b)
        offs == Offsets(fr.lits, 0)
    IN /\ \A k \in 1..Len(fr.tokens) :
              /\ fr.tokens[k].type = "Text" => OneScalar(fr.tokens[k].value)
              /\ fr.tokens[k].type # "CustomEmoji" => OneScalar(fr.lits[k])
       /\ (Done(TheCall) /\ ~features.discord) =>
              /\ Len(fr.tokens) = Cardinality(starts)
              /\ b = <<>> => fr.tokens = <<>>
              /\ \A k \in 1..Len(fr.tokens) :
                    LET f == SubSeq(b, offs[k] + 1, offs[k] + Len(fr.lits[k]))
                    IN /\ offs[k] \in starts
                       /\ OneScalar(f)
                       /\ fr.tokens[k] =
                              IF f \in DOMAIN EmojiTable
                              THEN [type |-> "Emoji", value |-> EmojiTable[f]]
                              ELSE [type |-> "Text", value |-> f]

\* Scanning disabled, and the input holds a markup and a four-byte standard
\* emoji: every one of their characters is a token of its own.
C4_Witness ==
    /\ Done(TheCall)
    /\ ~features.discord
    /\ Occurrences(s[TheCall]) # {}
    /\ \E k \in 1..Len(frame[TheCall].tokens) :
           frame[TheCall].tokens[k] = [type |-> "Emoji", value |-> EmojiTable[Grinning]]

(***************************************************************************)
(* C3  Completeness.  The number of Text and Emoji tokens of parse(s) is   *)
(* the number of Unicode scalar values of s outside all custom-emoji       *)
(* matches, and the number of CustomEmoji tokens is the number of matches: *)
(* an empty span before, between or after matches contributes no token.    *)
(***************************************************************************)
\* Offsets of b covered by one of the matches ms.
Covered(ms) == UNION {ms[k][1]..(ms[k][2] - 1) : k \in 1..Len(ms)}

C3_Completeness ==
    LET fr == frame[TheCall]
        b == s[TheCall]
        ms == Matches(b)
    IN Done(TheCall) =>
        /\ Len(IndicesOf(fr.tokens, {"CustomEmoji"}, 1)) = Len(ms)
        /\ Len(IndicesOf(fr.tokens, {"Text", "Emoji"}, 1))
               = Cardinality(ScalarStarts(b) \ Covered(ms))
        /\ Len(fr.tokens) = Len(ms) + Cardinality(ScalarStarts(b) \ Covered(ms))

\* Two adjacent markups are the whole input: an empty span before, between
\* and after them, and the tokens are the two custom emoji alone.
C3_Witness ==
    LET b == s[TheCall]
        ms == Matches(b)
    IN /\ Done(TheCall)
       /\ Len(ms) = 2
       /\ ms[1][1] = 0
       /\ ms[1][2] = ms[2][1]
       /\ ms[2][2] = Len(b)
       /\ Len(frame[TheCall].tokens) = 2

(***************************************************************************)
(* C5  With scanning enabled a CustomEmoji token is produced exactly for   *)
(* the leftmost-first, non-overlapping occurrences of the markup, at the   *)
(* place of the occurrence, and the id in its URL is the digit run of that *)
(* very occurrence.  A bracketed candidate with fewer than 17 or more than *)
(* 19 digits, an empty name or a foreign character in its name yields no   *)
(* CustomEmoji token: its characters are tokens of their own.              *)
(***************************************************************************)
C5_CustomEmojiExactlyForMarkup ==
    LET fr == frame[TheCall]
        b == s[TheCall]
        ms == LeftmostFirst(Occurrences(b), 0)
        ce == IndicesOf(fr.tokens, {"CustomEmoji"}, 1)
        offs == Offsets(fr.lits, 0)
    IN (Done(TheCall) /\ features.discord) =>
        /\ Len(ce) = Len(ms)
        /\ \A k \in 1..Len(ce) :
              LET w == SubSeq(b, ms[k][1] + 1, ms[k][2])
              IN /\ offs[ce[k]] = ms[k][1]
                 /\ fr.lits[ce[k]] = w
                 /\ fr.tokens[ce[k]].value = (UrlPrefix \o DigitRun(w)) \o UrlSuffix
                 /\ Len(DigitRun(w)) \in 17..19
        /\ \A k \in 1..Len(fr.tokens) :
              fr.tokens[k].type # "CustomEmoji" =>
                  /\ OneScalar(fr.lits[k])
                  /\ fr.lits[k] = SubSeq(b, offs[k] + 1, offs[k] + Len(fr.lits[k]))

\* The input holds bracketed candidates, '<' to '>', and exactly one of them
\* is a markup: one custom emoji, and the '<' of the other candidate is a
\* Text token.
C5_Witness ==
    LET fr == frame[TheCall]
        b == s[TheCall]
    IN /\ Done(TheCall)
       /\ features.discord
       /\ Cardinality(Occurrences(b)) = 1
       /\ Cardinality({i \in 1..Len(b) : b[i] = 60}) = 2
       /\ Cardinality({i \in 1..Len(b) : b[i] = 62}) = 2
       /\ Len(IndicesOf(fr.tokens, {"CustomEmoji"}, 1)) = 1
       /\ Cardinality({k \in 1..Len(fr.tokens) : fr.tokens[k] = [type |-> "Text", value |-> <<60>>]}) = 1

(***************************************************************************)
(* C2  With scanning enabled, an input P + M + S, where M is one markup    *)
(* and P and S hold no markup and no character the resolver knows, parses  *)
(* to one Text token per character of P, then the CustomEmoji token of     *)
(* 'https://cdn.discordapp.com/emojis/' + id + '.png?size=96', then one    *)
(* Text token per character of S; the input of test_parse gives the 13     *)
(* tokens its assertion lists.                                             *)
(***************************************************************************)
\* The scalars of b, in order, each as its bytes: a scalar runs up to the next
\* byte that is not a continuation byte.
RECURSIVE ScalarsOf(_)
ScalarsOf(b) ==
    IF b = <<>> THEN <<>>
    ELSE LET n == SetMin({i \in 1..Len(b) : i = Len(b) \/ ~IsContinuation(b[i + 1])})
         IN <<SubSeq(b, 1, n)>> \o ScalarsOf(SubSeq(b, n + 1, Len(b)))

TextTokens(b) ==
    LET sc == ScalarsOf(b) IN [k \in 1..Len(sc) |-> [type |-> "Text", value |-> sc[k]]]

\* The vector test_parse asserts, lines 105-119.
TestExpected ==
    << [type |-> "Text", value |-> <<72>>],
       [type |-> "Text", value |-> <<101>>],
       [type |-> "Text", value |-> <<108>>],
       [type |-> "Text", value |-> <<108>>],
       [type |-> "Text", value |-> <<111>>],
       [type |-> "Text", value |-> <<32>>],
       [type |-> "CustomEmoji",
        value |-> (UrlPrefix \o <<49, 50, 51, 52, 53, 54, 55, 56, 57, 48,
                                  49, 50, 51, 52, 53, 54, 55, 56>>) \o UrlSuffix],
       [type |-> "Text", value |-> <<32>>],
       [type |-> "Text", value |-> <<87>>],
       [type |-> "Text", value |-> <<111>>],
       [type |-> "Text", value |-> <<114>>],
       [type |-> "Text", value |-> <<108>>],
       [type |-> "Text", value |-> <<100>>] >>

\* b is P + M + S as the claim has it; the markup is the range o.
IsPMS(b, o) ==
    LET P == SubSeq(b, 1, o[1])
        S == SubSeq(b, o[2] + 1, Len(b))
        known == {i \in ScalarStarts(b) \ (o[1]..(o[2] - 1)) :
                     \E f \in DOMAIN EmojiTable :
                         i + Len(f) <= Len(b) /\ SubSeq(b, i + 1, i + Len(f)) = f}
    IN /\ IsMarkup(SubSeq(b, o[1] + 1, o[2]))
       /\ Occurrences(P) = {}
       /\ Occurrences(S) = {}
       /\ known = {}

C2_TextMarkupText ==
    LET fr == frame[TheCall]
        b == s[TheCall]
    IN (Done(TheCall) /\ features.discord) =>
        /\ \A o \in Occurrences(b) :
              IsPMS(b, o) =>
                  fr.tokens =
                      (TextTokens(SubSeq(b, 1, o[1]))
                          \o << [type |-> "CustomEmoji",
                                 value |-> (UrlPrefix
                                              \o DigitRun(SubSeq(b, o[1] + 1, o[2])))
                                              \o UrlSuffix] >>)
                          \o TextTokens(SubSeq(b, o[2] + 1, Len(b)))
        /\ b = TestInput => (fr.tokens = TestExpected /\ Len(fr.tokens) = 13)

\* test_parse's input has been parsed; P and S are not empty.
C2_Witness ==
    /\ Done(TheCall)
    /\ features.discord
    /\ s[TheCall] = TestInput
    /\ \E o \in Occurrences(TestInput) : IsPMS(TestInput, o) /\ o[1] > 0 /\ o[2] < Len(TestInput)

(***************************************************************************)
(* C9  Tokenization cannot fail.  The enabled-mode scan keeps              *)
(* 0 <= last <= start < end <= len(s) at every loop iteration, with last   *)
(* never decreasing and all three indices on character boundaries, and     *)
(* re-applying the pattern to a matched substring finds capture group 1:   *)
(* no slice and no unwrap of raw_parse fails, and every call terminates    *)
(* with a token sequence.                                                  *)
(***************************************************************************)
OnBoundary(b, i) == i = Len(b) \/ i \in ScalarStarts(b)

C9_Indices ==
    LET fr == frame[TheCall]
        b == s[TheCall]
    IN /\ fr.pc # "panic"
       /\ fr.pc \in {"iter", "body", "tail", "done"} =>
              /\ 0 <= fr.last
              /\ fr.last <= Len(b)
              /\ OnBoundary(b, fr.last)
       /\ fr.pc = "body" =>
              /\ fr.last <= fr.m.start
              /\ fr.m.start < fr.m.end
              /\ fr.m.end <= Len(b)
              /\ OnBoundary(b, fr.m.start)
              /\ OnBoundary(b, fr.m.end)
              /\ CapturesGet(RE_DISCORD_EMOJI, SubSeq(b, fr.m.start + 1, fr.m.end), 1).some
       /\ caller[TheCall] = "returned" =>
              /\ result[TheCall].kind = "Vec"
              /\ result[TheCall].tokens = fr.tokens

\* What is left of a call: twice the bytes the iterator has not searched,
\* plus the steps left at the current position.
C9_Measure(c) ==
    LET fr == frame[c]
        left == 2 * (Len(s[c]) - fr.it)
    IN CASE fr.pc = "iter" -> left + 4
         [] fr.pc = "body" -> left + 5
         [] fr.pc \in {"plain", "tail"} -> 3
         [] fr.pc = "done" -> IF caller[c] = "returned" THEN 1 ELSE 2
         [] OTHER -> 0

\* A step of a call in progress leaves last where it is or moves it forward,
\* and brings the call nearer to its end.
C9_Progress ==
    caller[TheCall] = "incall" =>
        /\ frame'[TheCall].last >= frame[TheCall].last
        /\ C9_Measure(TheCall)' < C9_Measure(TheCall)
        /\ C9_Measure(TheCall)' > 0

\* A call in progress is never stuck: its body is running and stands at a
\* step (the guards of Plain, IterNext, Body, Finish and Return).
C9_NotStuck ==
    caller[TheCall] = "incall" =>
        /\ exec[TheCall] = "running"
        /\ frame[TheCall].pc \in {"plain", "iter", "body", "tail", "done"}

C9_CannotFail ==
    /\ [](C9_Indices /\ C9_NotStuck)
    /\ [][C9_Progress]_vars

\* The body runs for a second match, whose start is the end of the first,
\* after a first match that began behind a multi-byte scalar and a '>'.
C9_Witness ==
    LET fr == frame[TheCall]
    IN /\ fr.pc = "body"
       /\ fr.last > 0
       /\ fr.last = fr.m.start
       /\ Len(IndicesOf(fr.tokens, {"CustomEmoji"}, 1)) = 1
       /\ fr.tokens[1].type = "Emoji"

(***************************************************************************)
(* C6  The concurrency wrapper does not change tokenization.  Whenever the *)
(* spawned task runs to completion, what the asynchronous parse delivers   *)
(* (the Ok value under tokio, the value under async-std) is the sequence   *)
(* the synchronous raw_parse(s) returns, however the scheduler interleaves *)
(* the task with concurrent parse calls on other inputs.                   *)
(***************************************************************************)
C6_WrapperKeepsTokens ==
    \A c \in Calls :
        (caller[c] = "returned" /\ exec[c] = "complete") =>
            /\ raw_parse(s[c]).pc = "done"
            /\ result[c].kind = (IF Wrapper = "tokio" THEN "Ok" ELSE "Vec")
            /\ result[c].tokens = raw_parse(s[c]).tokens

\* Two calls on different inputs have both returned, and while one of them
\* was still in its loop the other had already built tokens.
C6_Witness ==
    \E c \in Calls : \E d \in Calls \ {c} :
        /\ s[c] # s[d]
        /\ features.discord
        /\ caller[c] = "returned"
        /\ exec[c] = "complete"
        /\ Len(result[c].tokens) > 0
        /\ caller[d] = "returned"
        /\ exec[d] = "complete"
        /\ Len(result[d].tokens) > 0

(***************************************************************************)
(* C7  No partial results.  Every parse call ends with the complete token  *)
(* sequence of its input or with a total failure.  Under tokio a task that *)
(* is cancelled or panics surfaces only as a JoinError carrying no tokens; *)
(* a proper prefix of the token sequence is never handed to the caller,    *)
(* and the wrapper spawns one task per call: it never retries.             *)
(***************************************************************************)
C7_NoPartialResults ==
    \A c \in Calls :
        /\ spawns[c] <= 1
        /\ result[c].kind \in {"Pending", "Ok", "Vec", "Err"}
        /\ result[c].kind \in {"Ok", "Vec"} =>
              /\ exec[c] = "complete"
              /\ result[c].tokens = raw_parse(s[c]).tokens
        /\ result[c].kind = "Err" =>
              /\ Wrapper = "tokio"
              /\ exec[c] \in {"cancelled", "panicked"}
              /\ result[c].error = exec[c]
              /\ result[c].tokens = <<>>
        /\ (caller[c] = "returned" /\ exec[c] \in {"cancelled", "panicked"}) =>
              result[c].kind = "Err"
        /\ caller[c] = "returned" => result[c].kind # "Pending"
        /\ caller[c] = "unwound" => result[c].kind = "Pending"

\* Under tokio one call has got the JoinError of a task that panicked and
\* another the JoinError of a task that was cancelled.
C7_Witness ==
    \E c \in Calls : \E d \in Calls \ {c} :
        /\ Wrapper = "tokio"
        /\ caller[c] = "returned"
        /\ result[c] = Err("panicked")
        /\ caller[d] = "returned"
        /\ result[d] = Err("cancelled")

(***************************************************************************)
(* C8  The two wrapper modes are mutually exclusive: every build that      *)
(* enables both the tokio and the async-std feature is rejected at build   *)
(* time by the compile_error! item, so no build that can run has both.     *)
(***************************************************************************)
C8_WrappersExclusive ==
    item = Finished =>
        /\ (features.tokio /\ features.asyncstd) => compile_error(CompileErrorMsg) \in diags
        /\ diags = {} => ~(features.tokio /\ features.asyncstd)

\* A finished build with both features on, rejected with the message.
C8_Witness ==
    /\ item = Finished
    /\ features.tokio
    /\ features.asyncstd
    /\ ~features.async
    /\ compile_error(CompileErrorMsg) \in diags

(***************************************************************************)
(* C10  Every combination of the features discord, async, tokio and        *)
(* async-std that the both-wrappers check does not reject defines exactly  *)
(* one parse and exactly one raw_parse.                                    *)
(***************************************************************************)
C10_OneParsePerBuild ==
    (item = Finished /\ compile_error(CompileErrorMsg) \notin diags) =>
        /\ defs["parse"] = 1
        /\ defs["raw_parse"] = 1

====
